---- MODULE Spec2Model ----
(***************************************************************************)
(* The two loggers of cpp-app/include/cmd_args.h:                          *)
(*   - the C++ logger of namespace logs (log_queue, logThreadFunc, COUT_,  *)
(*     stopLogThread, LogThreadGuard), writing under ./output;             *)
(*   - the pthread logger (log_head/log_tail, log_thread_func,             *)
(*     log_message, start_log_thread, stop_log_thread), writing under      *)
(*     ./resources.                                                        *)
(* The two share no state.  The variable logger says which of them the     *)
(* host program drives in a behaviour, so the state space is the sum of    *)
(* the two and not their product.                                          *)
(*                                                                         *)
(* A rendered line is a sequence of text pieces; the pieces "[" and "]"    *)
(* are the brackets the consumers search for.                              *)
(*                                                                         *)
(* log_thread_running is read and written without a common lock.  Each     *)
(* such access is a step of its own, so a racing read returns the value    *)
(* before or after the racing write, as the schedule decides.              *)
(***************************************************************************)
EXTENDS Integers, Sequences, FiniteSets, TLC

(* ------------------------------ bounds -------------------------------- *)
MaxEnq == 2          \* enqueue calls in a run, over all threads
MaxCout == 2         \* COUT_ calls in a run, over all threads
MaxStopCalls == 2    \* calls of stopLogThread in a run

\* Two application threads, beside the consumer and the thread that shuts down.
Threads == {"t1", "t2"}

\* The threads that calls of start_log_thread can create, in order of creation.
PtConsumers == {"c1", "c2"}

\* The thread that runs main, and the severities main logs at.
MainThread == "t1"
MainSeverity == {"INFO", "WARN"}

\* What the host does in a run: it queues lines, or logs synchronously, or
\* does one of each.
Workloads ==
    { [ enq |-> MaxEnq, cout |-> 0 ], [ enq |-> 0, cout |-> MaxCout ],
      [ enq |-> 1, cout |-> 1 ] }

(* ----------------------------- constants ------------------------------ *)
Severity == {"INFO", "WARN", "ERROR", "DEBUG", "FATAL"}
\* The severities the control flow sends through the queue.
QueuedSeverity == {"INFO", "WARN", "DEBUG"}
LOG_OUTPUT_PATH == "./output"
RESOURCE_PATH == "./resources"
EXIT_FAILURE == 1

VARIABLES
    logger,               \* "cpp" or "pthread": the logger this run drives
    budget,               \* the host's work in this run: [enq, cout] calls at most
    debug_build,          \* _DEBUG defined at compile time
    fs_fault,             \* what the file system refuses: "none", "mkdir", "open"
    guard_pc,             \* main with its LogThreadGuard: "none" when the host is
                          \* not that main, else "scope", "dtor", "gone"
    fs_dirs,              \* directories that exist
    fs_files,             \* path -> content (sequence of lines) of existing files
    std_out, std_err,     \* the process's console streams
    exited, exit_status,  \* the process has ended, and how
    log_mutex,            \* logs::log_mutex: "free" or its holder
    log_queue,            \* logs::log_queue
    log_thread_running,   \* logs::log_thread_running
    log_thread_joinable,  \* logs::log_thread.joinable()
    cons_pc, cons_entry,  \* logThreadFunc: position, local log_entry
    main_pc, stop_calls,  \* stopLogThread: position, calls returned so far
    stop2_pc,             \* stopLogThread called by a second thread: position
    thr_pc, thr_line, thr_level, thr_is_open, thr_ops,  \* application threads
    enq_hist,             \* history: every line appended to the queue, in order
    skipped,              \* history: queued lines whose file could not be opened
    drained,              \* history: lines the final drain of stopLogThread took
    pt_running,           \* ::log_thread_running (int, 1 or 0)
    pt_list,              \* the list log_head .. log_tail
    pt_mutex,             \* ::log_mutex
    pt_cons_pc, pt_node,  \* log_thread_func, for each thread: position, local node
    pt_main_pc,           \* the thread that calls start_/stop_log_thread
    pt_enq_at_stop        \* history: Len(enq_hist) when stop_log_thread was called

vars == << logger, budget, debug_build, fs_fault, guard_pc, fs_dirs, fs_files, std_out, std_err,
           exited, exit_status, log_mutex, log_queue, log_thread_running,
           log_thread_joinable, cons_pc, cons_entry, main_pc, stop_calls, stop2_pc,
           thr_pc, thr_line, thr_level, thr_is_open, thr_ops, enq_hist, skipped, drained,
           pt_running, pt_list, pt_mutex, pt_cons_pc, pt_node, pt_main_pc,
           pt_enq_at_stop >>

fsVars == << fs_dirs, fs_files >>
conVars == << std_out, std_err >>
exitVars == << exited, exit_status >>
envVars == << logger, budget, debug_build, fs_fault >>
hostVars == << envVars, guard_pc, stop2_pc >>
cppSync == << log_mutex, log_queue, log_thread_running, log_thread_joinable >>
cppCons == << cons_pc, cons_entry >>
cppMain == << main_pc, stop_calls >>
thrVars == << thr_pc, thr_line, thr_level, thr_is_open, thr_ops >>
histVars == << enq_hist, skipped, drained >>
ptVars == << pt_running, pt_list, pt_mutex, pt_cons_pc, pt_node, pt_main_pc,
             pt_enq_at_stop >>

NoLine == << >>

(* --------------------------- pure functions --------------------------- *)

\* getTimeString: the local time as text; the clock is outside the model.
getTimeString == "2025-09-24 14:30:45"

\* The text a call formats into buf: one piece, distinct for each call.
BufOf(t, k) == "msg " \o t \o "." \o ToString(k)

\* COUT_'s two line layouts (logMsg).
RenderLine(debug, log_level, function, line, buf) ==
    IF debug
    THEN << "[", log_level, "]", " [", getTimeString, "]", " (", function, ":", line,
            ")", " - ", buf, "\n" >>
    ELSE << "[", log_level, "]", " [", getTimeString, "]", " - ", buf, "\n" >>

\* std::string::find(']'): the 0-based index of the first "]", or npos.
RECURSIVE FindFrom(_, _, _)
FindFrom(s, c, i) ==
    IF i > Len(s) THEN -1
    ELSE IF s[i] = c THEN i - 1
    ELSE FindFrom(s, c, i + 1)

Find(s, c) == FindFrom(s, c, 1)

\* std::string::substr(pos, n) on 0-based positions; n < 0 stands for npos - 1.
Substr(s, pos, n) ==
    LET last == IF n < 0 \/ pos + n > Len(s) THEN Len(s) ELSE pos + n
    IN SubSeq(s, pos + 1, last)

\* The pieces of a text, put together as one string.
RECURSIVE Join(_)
Join(s) == IF s = << >> THEN "" ELSE Head(s) \o Join(Tail(s))

\* log_entry.substr(1, log_entry.find(']') - 1), in logThreadFunc and stopLogThread.
ExtractLevelFromZero(log_entry) == Join(Substr(log_entry, 0, Find(log_entry, "]")))

ExtractLevel(log_entry) == Join(Substr(log_entry, 1, Find(log_entry, "]") - 1))

\* ensureDirectoryExists / ensure_directory_exists: the directories afterwards.
ensureDirectoryExists(dirs, dirPath, can_mkdir) ==
    IF dirPath \in dirs \/ can_mkdir THEN dirs \cup {dirPath} ELSE dirs

\* getLogFilePath: the path (directory, file name) and the directories afterwards.
getLogFilePathNoMkdir(level, dirs, can_mkdir) ==
    [ path |-> << LOG_OUTPUT_PATH, level \o ".log" >>, dirs |-> dirs ]

getLogFilePathOneFile(level, dirs, can_mkdir) ==
    [ path |-> << LOG_OUTPUT_PATH, "ERROR" \o ".log" >>,
      dirs |-> ensureDirectoryExists(dirs, LOG_OUTPUT_PATH, can_mkdir) ]

getLogFilePath(level, dirs, can_mkdir) ==
    [ path |-> << LOG_OUTPUT_PATH, level \o ".log" >>,
      dirs |-> ensureDirectoryExists(dirs, LOG_OUTPUT_PATH, can_mkdir) ]

\* Opening a file for append: it opens only in an existing directory, and when
\* the system lets it (open_ok); a file that is not there is created empty.
OpenTruncate(files, dirs, path, open_ok) ==
    LET ok == open_ok /\ path[1] \in dirs
    IN [ is_open |-> ok,
         files   |-> IF ok
                     THEN [ p \in DOMAIN files \cup {path} |->
                              IF p = path THEN << >> ELSE files[p] ]
                     ELSE files ]

OpenAppend(files, dirs, path, open_ok) ==
    LET ok == open_ok /\ path[1] \in dirs
    IN [ is_open |-> ok,
         files   |-> IF ok /\ path \notin DOMAIN files
                     THEN [ p \in DOMAIN files \cup {path} |->
                              IF p = path THEN << >> ELSE files[p] ]
                     ELSE files ]

\* Whether the system lets a file be opened: no file when fault is "open";
\* every file but INFO.log when fault is "open_info".
CanOpen(fault, path) ==
    /\ fault # "open"
    /\ ~(fault = "open_info" /\ path[2] = "INFO" \o ".log")

\* log_file << text, on a stream opened for append.
WriteLineAtStart(files, path, text) == [ files EXCEPT ![path] = << text >> \o @ ]

WriteLine(files, path, text) == [ files EXCEPT ![path] = Append(@, text) ]

\* std::ofstream log_file(getLogFilePath(level), std::ios::app);
\* if (log_file.is_open()) log_file << text;
PersistCpp(level, text, dirs, files, fault) ==
    LET p == getLogFilePath(level, dirs, fault # "mkdir")
        o == OpenAppend(files, p.dirs, p.path, CanOpen(fault, p.path))
    IN [ dirs |-> p.dirs, is_open |-> o.is_open,
         files |-> IF o.is_open THEN WriteLine(o.files, p.path, text) ELSE o.files ]

(* ------------------------------- Init --------------------------------- *)
InitWith(faults) ==
    /\ logger \in {"cpp", "pthread"}
    /\ budget \in Workloads
    /\ logger = "pthread" => budget.cout = 0
    /\ debug_build \in BOOLEAN
    /\ fs_fault \in faults
    /\ guard_pc \in {"none", "scope"}
    /\ guard_pc = "scope" => (logger = "cpp" /\ budget.enq = 0)
    /\ fs_dirs = {}
    /\ fs_files = << >>
    /\ std_out = << >>
    /\ std_err = << >>
    /\ exited = FALSE
    /\ exit_status = 0
    /\ log_mutex = "free"
    /\ log_queue = << >>
    /\ log_thread_running = TRUE
    /\ log_thread_joinable = TRUE
    /\ cons_pc = "loop"
    /\ cons_entry = NoLine
    /\ main_pc = "idle"
    /\ stop_calls = 0
    /\ stop2_pc = "idle"
    /\ thr_pc = [ t \in Threads |-> "idle" ]
    /\ thr_line = [ t \in Threads |-> NoLine ]
    /\ thr_level = [ t \in Threads |-> "" ]
    /\ thr_is_open = [ t \in Threads |-> FALSE ]
    /\ thr_ops = [ t \in Threads |-> 0 ]
    /\ enq_hist = << >>
    /\ skipped = {}
    /\ drained = {}
    /\ pt_running = 1
    /\ pt_list = << >>
    /\ pt_mutex = "free"
    /\ pt_cons_pc = [ c \in PtConsumers |-> "none" ]
    /\ pt_node = [ c \in PtConsumers |-> NoLine ]
    /\ pt_main_pc = "start"
    /\ pt_enq_at_stop = 0

\* The file system works, or refuses every mkdir, or refuses every open.
Init == InitWith({"none", "mkdir", "open"})

\* The file system refuses to open one file, INFO.log, and no other.
InitOneFile == InitWith({"open_info"})

\* The C++ logger's code runs while the process lives: std::exit ends every
\* thread of it.
CppAfterExit == logger = "cpp"

Cpp == logger = "cpp" /\ ~exited

\* Calls made so far, returned or under way.
EnqCalls == Len(enq_hist) + Cardinality({ t \in Threads : thr_pc[t] = "enq_push" })

CoutCalls ==
    Len(std_out) + Cardinality({ t \in Threads : thr_pc[t] \in {"cout_write", "cout_tail"} })

\* log_queue.front() and log_queue.pop(): the oldest entry, and the rest.
QueueTakeNewest(queue) ==
    [ entry |-> queue[Len(queue)], rest |-> SubSeq(queue, 1, Len(queue) - 1) ]

QueueTakeDropsRest(queue) == [ entry |-> Head(queue), rest |-> << >> ]

QueueTakeNoPop(queue) == [ entry |-> Head(queue), rest |-> queue ]

QueueTake(queue) == [ entry |-> Head(queue), rest |-> Tail(queue) ]

\* log_cv.notify_all / notify_one: a consumer blocked in wait is made runnable.
NotifyCv(pc) == IF pc = "blocked" THEN "woken" ELSE pc

(* -------------------- logs::logThreadFunc (consumer) ------------------- *)

\* while (log_thread_running)
LTF_Loop ==
    /\ Cpp /\ cons_pc = "loop"
    /\ cons_pc' = IF log_thread_running THEN "lock" ELSE "done"
    /\ UNCHANGED << hostVars, fsVars, conVars, exitVars, cppSync, cons_entry, cppMain,
                    thrVars, histVars, ptVars >>

\* std::unique_lock<std::mutex> lock(log_mutex);
LTF_Lock ==
    /\ Cpp /\ cons_pc = "lock" /\ log_mutex = "free"
    /\ log_mutex' = "consumer"
    /\ cons_pc' = "pred"
    /\ UNCHANGED << hostVars, fsVars, conVars, exitVars, log_queue, log_thread_running,
                    log_thread_joinable, cons_entry, cppMain, thrVars, histVars, ptVars >>

\* The predicate of log_cv.wait, evaluated with the lock held.
WaitPredicate == log_queue # << >> \/ ~log_thread_running

LTF_Pred ==
    /\ Cpp /\ cons_pc = "pred"
    /\ cons_pc' = IF WaitPredicate THEN "inner" ELSE "wait"
    /\ UNCHANGED << hostVars, fsVars, conVars, exitVars, cppSync, cons_entry, cppMain,
                    thrVars, histVars, ptVars >>

\* condition_variable::wait(lock): release the lock and block, atomically.
LTF_Wait ==
    /\ Cpp /\ cons_pc = "wait"
    /\ log_mutex' = "free"
    /\ cons_pc' = "blocked"
    /\ UNCHANGED << hostVars, fsVars, conVars, exitVars, log_queue, log_thread_running,
                    log_thread_joinable, cons_entry, cppMain, thrVars, histVars, ptVars >>

\* wait returns after a notification: the lock is taken again, the predicate
\* is evaluated again.
LTF_Wake ==
    /\ Cpp /\ cons_pc = "woken" /\ log_mutex = "free"
    /\ log_mutex' = "consumer"
    /\ cons_pc' = "pred"
    /\ UNCHANGED << hostVars, fsVars, conVars, exitVars, log_queue, log_thread_running,
                    log_thread_joinable, cons_entry, cppMain, thrVars, histVars, ptVars >>

\* while (!log_queue.empty()) { log_entry = front(); pop(); lock.unlock(); ...
\* and, on an empty queue, the end of the outer loop's body (lock released).
LTF_InnerKeepsLock ==
    /\ Cpp /\ cons_pc = "inner"
    /\ IF log_queue # << >>
       THEN /\ cons_entry' = QueueTake(log_queue).entry
            /\ log_queue' = QueueTake(log_queue).rest
            /\ cons_pc' = "write"
            /\ UNCHANGED log_mutex
       ELSE /\ cons_pc' = "loop"
            /\ log_mutex' = "free"
            /\ UNCHANGED << cons_entry, log_queue >>
    /\ UNCHANGED << hostVars, fsVars, conVars, exitVars, log_thread_running,
                    log_thread_joinable, cppMain, thrVars, histVars, ptVars >>

LTF_Inner ==
    /\ Cpp /\ cons_pc = "inner"
    /\ IF log_queue # << >>
       THEN /\ cons_entry' = QueueTake(log_queue).entry
            /\ log_queue' = QueueTake(log_queue).rest
            /\ cons_pc' = "write"
       ELSE /\ cons_pc' = "loop"
            /\ UNCHANGED << cons_entry, log_queue >>
    /\ log_mutex' = "free"
    /\ UNCHANGED << hostVars, fsVars, conVars, exitVars, log_thread_running,
                    log_thread_joinable, cppMain, thrVars, histVars, ptVars >>

\* level = substr(...); ofstream log_file(getLogFilePath(level), app);
\* if (log_file.is_open()) log_file << log_entry;
LTF_WriteStopsOnFailure ==
    /\ Cpp /\ cons_pc = "write"
    /\ LET r == PersistCpp(ExtractLevel(cons_entry), cons_entry, fs_dirs, fs_files,
                           fs_fault)
       IN /\ fs_dirs' = r.dirs
          /\ fs_files' = r.files
          /\ skipped' = IF r.is_open THEN skipped ELSE skipped \cup {cons_entry}
          /\ cons_pc' = IF r.is_open THEN "relock" ELSE "done"
    /\ cons_entry' = NoLine
    /\ UNCHANGED << hostVars, conVars, exitVars, cppSync, cppMain, thrVars, enq_hist,
                    drained, ptVars >>

LTF_Write ==
    /\ Cpp /\ cons_pc = "write"
    /\ LET r == PersistCpp(ExtractLevel(cons_entry), cons_entry, fs_dirs, fs_files,
                           fs_fault)
       IN /\ fs_dirs' = r.dirs
          /\ fs_files' = r.files
          /\ skipped' = IF r.is_open THEN skipped ELSE skipped \cup {cons_entry}
    /\ cons_entry' = NoLine
    /\ cons_pc' = "relock"
    /\ UNCHANGED << hostVars, conVars, exitVars, cppSync, cppMain, thrVars, enq_hist,
                    drained, ptVars >>

\* lock.lock();
LTF_Relock ==
    /\ Cpp /\ cons_pc = "relock" /\ log_mutex = "free"
    /\ log_mutex' = "consumer"
    /\ cons_pc' = "inner"
    /\ UNCHANGED << hostVars, fsVars, conVars, exitVars, log_queue, log_thread_running,
                    log_thread_joinable, cons_entry, cppMain, thrVars, histVars, ptVars >>

Consumer ==
    \/ LTF_Loop \/ LTF_Lock \/ LTF_Pred \/ LTF_Wait \/ LTF_Wake \/ LTF_Inner
    \/ LTF_Write \/ LTF_Relock

(* ------------------------- logs::stopLogThread ------------------------- *)

\* ~LogThreadGuard: try { stopLogThread(); } catch (...) {}: the call is due
\* when the destructor has begun and has not made it yet.
GuardCallsStopNever(pc, calls) == FALSE

GuardCallsStop(pc, calls) == pc = "dtor" /\ calls = 0

\* Who calls stopLogThread: the guard's destructor, or, in a host without
\* the guard, the host itself.
StopIsCalled ==
    IF guard_pc = "none" THEN stop_calls < MaxStopCalls
    ELSE GuardCallsStop(guard_pc, stop_calls)

\* log_thread_running = false;   (no lock is held)
Stop_SetFlag ==
    /\ Cpp /\ main_pc = "idle" /\ StopIsCalled
    /\ log_thread_running' = FALSE
    /\ main_pc' = "notify"
    /\ UNCHANGED << hostVars, fsVars, conVars, exitVars, log_mutex, log_queue,
                    log_thread_joinable, cppCons, stop_calls, thrVars, histVars, ptVars >>

\* log_cv.notify_all();          (no lock is held)
Stop_Notify ==
    /\ Cpp /\ main_pc = "notify"
    /\ cons_pc' = NotifyCv(cons_pc)
    /\ main_pc' = "joinable"
    /\ UNCHANGED << hostVars, fsVars, conVars, exitVars, cppSync, cons_entry, stop_calls,
                    thrVars, histVars, ptVars >>

\* if (log_thread.joinable())
StopJoinsAlways(joinable) == TRUE

StopJoinsNever(joinable) == FALSE

StopJoins(joinable) == joinable

Stop_Joinable ==
    /\ Cpp /\ main_pc = "joinable"
    /\ main_pc' = IF StopJoins(log_thread_joinable) THEN "join" ELSE "lock"
    /\ UNCHANGED << hostVars, fsVars, conVars, exitVars, cppSync, cppCons, stop_calls,
                    thrVars, histVars, ptVars >>

\* log_thread.join(): returns once logThreadFunc has returned.
Stop_JoinNoWait ==
    /\ Cpp /\ main_pc = "join"
    /\ log_thread_joinable' = FALSE
    /\ main_pc' = "lock"
    /\ UNCHANGED << hostVars, fsVars, conVars, exitVars, log_mutex, log_queue,
                    log_thread_running, cppCons, stop_calls, thrVars, histVars, ptVars >>

Stop_Join ==
    /\ Cpp /\ main_pc = "join" /\ cons_pc = "done"
    /\ log_thread_joinable' = FALSE
    /\ main_pc' = "lock"
    /\ UNCHANGED << hostVars, fsVars, conVars, exitVars, log_mutex, log_queue,
                    log_thread_running, cppCons, stop_calls, thrVars, histVars, ptVars >>

\* std::lock_guard<std::mutex> lock(log_mutex);
Stop_Lock ==
    /\ Cpp /\ main_pc = "lock" /\ log_mutex = "free"
    /\ log_mutex' = "main"
    /\ main_pc' = "drain"
    /\ UNCHANGED << hostVars, fsVars, conVars, exitVars, log_queue, log_thread_running,
                    log_thread_joinable, cppCons, stop_calls, thrVars, histVars, ptVars >>

\* while (!log_queue.empty()) { pop; write; }  one entry a step, the lock held.
DrainStopsEarly(queue) == FALSE

DrainContinues(queue) == queue # << >>

Stop_Drain ==
    /\ Cpp /\ main_pc = "drain"
    /\ IF DrainContinues(log_queue)
       THEN /\ LET e == QueueTake(log_queue).entry
                    r == PersistCpp(ExtractLevel(e), e, fs_dirs, fs_files, fs_fault)
               IN /\ fs_dirs' = r.dirs
                  /\ fs_files' = r.files
                  /\ skipped' = IF r.is_open THEN skipped ELSE skipped \cup {e}
                  /\ drained' = drained \cup {e}
            /\ log_queue' = QueueTake(log_queue).rest
            /\ UNCHANGED main_pc
       ELSE /\ main_pc' = "return"
            /\ UNCHANGED << fsVars, skipped, drained, log_queue >>
    /\ UNCHANGED << hostVars, conVars, exitVars, log_mutex, log_thread_running,
                    log_thread_joinable, cppCons, stop_calls, thrVars, enq_hist, ptVars >>

\* The function returns; the lock_guard releases log_mutex.
Stop_Return ==
    /\ Cpp /\ main_pc = "return"
    /\ log_mutex' = "free"
    /\ main_pc' = "idle"
    /\ stop_calls' = stop_calls + 1
    /\ UNCHANGED << hostVars, fsVars, conVars, exitVars, log_queue, log_thread_running,
                    log_thread_joinable, cppCons, thrVars, histVars, ptVars >>

(* ------------ logs::stopLogThread, called by a second thread ----------- *)
\* In a host without the guard a second thread calls stopLogThread once, at
\* any time, also while the first caller is inside it.

\* log_thread_running = false;
Stop2_SetFlag ==
    /\ Cpp /\ guard_pc = "none" /\ stop2_pc = "idle"
    /\ log_thread_running' = FALSE
    /\ stop2_pc' = "notify"
    /\ UNCHANGED << envVars, guard_pc, fsVars, conVars, exitVars, log_mutex, log_queue,
                    log_thread_joinable, cppCons, cppMain, thrVars, histVars, ptVars >>

\* log_cv.notify_all();
Stop2_Notify ==
    /\ Cpp /\ stop2_pc = "notify"
    /\ cons_pc' = NotifyCv(cons_pc)
    /\ stop2_pc' = "joinable"
    /\ UNCHANGED << envVars, guard_pc, fsVars, conVars, exitVars, cppSync, cons_entry,
                    cppMain, thrVars, histVars, ptVars >>

\* if (log_thread.joinable())
Stop2_Joinable ==
    /\ Cpp /\ stop2_pc = "joinable"
    /\ stop2_pc' = IF StopJoins(log_thread_joinable) THEN "join" ELSE "lock"
    /\ UNCHANGED << envVars, guard_pc, fsVars, conVars, exitVars, cppSync, cppCons,
                    cppMain, thrVars, histVars, ptVars >>

\* What join() does on a thread object another thread has joined meanwhile
\* (two calls of join on one std::thread are not ordered by anything): it
\* returns, it throws std::system_error, or it does not return.
JoinRaced == {"lock", "threw", "hung"}

\* log_thread.join();
Stop2_Join ==
    /\ Cpp /\ stop2_pc = "join" /\ cons_pc = "done"
    /\ IF log_thread_joinable
       THEN /\ log_thread_joinable' = FALSE
            /\ stop2_pc' = "lock"
       ELSE /\ stop2_pc' \in JoinRaced
            /\ UNCHANGED log_thread_joinable
    /\ UNCHANGED << envVars, guard_pc, fsVars, conVars, exitVars, log_mutex, log_queue,
                    log_thread_running, cppCons, cppMain, thrVars, histVars, ptVars >>

\* log_thread.join() of the first caller, after the second caller has joined
\* the thread: besides returning (Stop_Join) it throws or does not return.
Stop_JoinRaced ==
    /\ Cpp /\ main_pc = "join" /\ cons_pc = "done" /\ ~log_thread_joinable
    /\ main_pc' \in JoinRaced \ {"lock"}
    /\ UNCHANGED << hostVars, fsVars, conVars, exitVars, cppSync, cppCons, stop_calls,
                    thrVars, histVars, ptVars >>

\* std::lock_guard<std::mutex> lock(log_mutex);
Stop2_Lock ==
    /\ Cpp /\ stop2_pc = "lock" /\ log_mutex = "free"
    /\ log_mutex' = "second"
    /\ stop2_pc' = "drain"
    /\ UNCHANGED << envVars, guard_pc, fsVars, conVars, exitVars, log_queue,
                    log_thread_running, log_thread_joinable, cppCons, cppMain, thrVars,
                    histVars, ptVars >>

\* while (!log_queue.empty()) { pop; write; }
Stop2_Drain ==
    /\ Cpp /\ stop2_pc = "drain"
    /\ IF DrainContinues(log_queue)
       THEN /\ LET e == QueueTake(log_queue).entry
                    r == PersistCpp(ExtractLevel(e), e, fs_dirs, fs_files, fs_fault)
               IN /\ fs_dirs' = r.dirs
                  /\ fs_files' = r.files
                  /\ skipped' = IF r.is_open THEN skipped ELSE skipped \cup {e}
                  /\ drained' = drained \cup {e}
            /\ log_queue' = QueueTake(log_queue).rest
            /\ UNCHANGED stop2_pc
       ELSE /\ stop2_pc' = "return"
            /\ UNCHANGED << fsVars, skipped, drained, log_queue >>
    /\ UNCHANGED << envVars, guard_pc, conVars, exitVars, log_mutex, log_thread_running,
                    log_thread_joinable, cppCons, cppMain, thrVars, enq_hist, ptVars >>

\* The function returns; the lock_guard releases log_mutex.
Stop2_Return ==
    /\ Cpp /\ stop2_pc = "return"
    /\ log_mutex' = "free"
    /\ stop2_pc' = "returned"
    /\ UNCHANGED << envVars, guard_pc, fsVars, conVars, exitVars, log_queue,
                    log_thread_running, log_thread_joinable, cppCons, cppMain, thrVars,
                    histVars, ptVars >>

StopLogThread2 ==
    \/ Stop2_SetFlag \/ Stop2_Notify \/ Stop2_Joinable \/ Stop2_Join \/ Stop2_Lock
    \/ Stop2_Drain \/ Stop2_Return

StopLogThread ==
    \/ Stop_SetFlag \/ Stop_Notify \/ Stop_Joinable \/ Stop_Join \/ Stop_Lock
    \/ Stop_Drain \/ Stop_Return

(* ------------------------------ logs::COUT_ ---------------------------- *)

\* if (log_level == "ERROR") std::cerr << logMsg.str();
CoutToStderr(log_level) == log_level = "ERROR"

\* if (log_level == "FATAL") std::exit(EXIT_FAILURE);
CoutExitsNever(log_level, is_open) == FALSE

CoutExitsIfWritten(log_level, is_open) == log_level = "FATAL" /\ is_open

CoutExitsOnFailure(log_level, is_open) == log_level = "FATAL" \/ ~is_open

CoutExits(log_level, is_open) == log_level = "FATAL"

\* std::exit(EXIT_FAILURE) destroys the objects of static storage, log_thread
\* among them: the destructor of a joinable std::thread calls std::terminate.
\* A process killed by SIGABRT (signal 6) reports 128 + 6 to its parent shell.
ExitStatusOf(joinable) == IF joinable THEN 128 + 6 ELSE EXIT_FAILURE

\* The threads that log, and the severities they log at: any thread at any
\* severity, or main alone while its guard is in scope.
MayLog(t) == guard_pc = "none" \/ (guard_pc = "scope" /\ t = MainThread)

HostSeverity == IF guard_pc = "none" THEN Severity ELSE MainSeverity

\* The call is entered, the line is rendered, and the lock_guard takes log_mutex.
Cout_Lock(t) ==
    /\ Cpp /\ thr_pc[t] = "idle" /\ CoutCalls < budget.cout /\ log_mutex = "free"
    /\ MayLog(t)
    /\ \E level \in HostSeverity :
         /\ thr_level' = [ thr_level EXCEPT ![t] = level ]
         /\ thr_line' = [ thr_line EXCEPT ![t] =
                RenderLine(debug_build, level, "main", "42", BufOf(t, thr_ops[t] + 1)) ]
    /\ log_mutex' = "thread"
    /\ thr_pc' = [ thr_pc EXCEPT ![t] = "cout_write" ]
    /\ UNCHANGED << hostVars, fsVars, conVars, exitVars, log_queue, log_thread_running,
                    log_thread_joinable, cppCons, cppMain, thr_is_open, thr_ops,
                    histVars, ptVars >>

\* The block "Write directly to file (synchronous)" of COUT_: what it does to
\* the directories, the files and the queue.  It never touches the queue.
CoutPersistQueued(log_level, text, dirs, files, fault, queue) ==
    IF log_level \in QueuedSeverity
    THEN [ dirs |-> dirs, files |-> files, is_open |-> FALSE,
           queue |-> Append(queue, text) ]
    ELSE [ dirs |-> PersistCpp(log_level, text, dirs, files, fault).dirs,
           files |-> PersistCpp(log_level, text, dirs, files, fault).files,
           is_open |-> PersistCpp(log_level, text, dirs, files, fault).is_open,
           queue |-> queue ]

CoutPersist(log_level, text, dirs, files, fault, queue) ==
    [ dirs |-> PersistCpp(log_level, text, dirs, files, fault).dirs,
      files |-> PersistCpp(log_level, text, dirs, files, fault).files,
      is_open |-> PersistCpp(log_level, text, dirs, files, fault).is_open,
      queue |-> queue ]

\* ofstream log_file(getLogFilePath(log_level), app); if open: write, flush;
\* the block ends and the lock is released.
Cout_Write(t) ==
    /\ Cpp /\ thr_pc[t] = "cout_write"
    /\ LET r == CoutPersist(thr_level[t], thr_line[t], fs_dirs, fs_files, fs_fault,
                            log_queue)
       IN /\ fs_dirs' = r.dirs
          /\ fs_files' = r.files
          /\ log_queue' = r.queue
          /\ thr_is_open' = [ thr_is_open EXCEPT ![t] = r.is_open ]
    /\ log_mutex' = "free"
    /\ thr_pc' = [ thr_pc EXCEPT ![t] = "cout_tail" ]
    /\ UNCHANGED << hostVars, conVars, exitVars, log_thread_running,
                    log_thread_joinable, cppCons, cppMain, thr_line, thr_level, thr_ops,
                    histVars, ptVars >>

\* std::cout << line; ERROR: std::cerr << line; FATAL: std::exit; else return.
Cout_Tail(t) ==
    /\ Cpp /\ thr_pc[t] = "cout_tail"
    /\ std_out' = Append(std_out, thr_line[t])
    /\ std_err' = IF CoutToStderr(thr_level[t]) THEN Append(std_err, thr_line[t])
                  ELSE std_err
    /\ IF CoutExits(thr_level[t], thr_is_open[t])
       THEN /\ exited' = TRUE
            /\ exit_status' = ExitStatusOf(log_thread_joinable)
            /\ thr_pc' = [ thr_pc EXCEPT ![t] = "exit" ]
            /\ UNCHANGED << thr_line, thr_level, thr_is_open, thr_ops >>
       ELSE /\ thr_pc' = [ thr_pc EXCEPT ![t] = "idle" ]
            /\ thr_ops' = [ thr_ops EXCEPT ![t] = @ + 1 ]
            /\ thr_line' = [ thr_line EXCEPT ![t] = NoLine ]
            /\ thr_level' = [ thr_level EXCEPT ![t] = "" ]
            /\ thr_is_open' = [ thr_is_open EXCEPT ![t] = FALSE ]
            /\ UNCHANGED exitVars
    /\ UNCHANGED << hostVars, fsVars, cppSync, cppCons, cppMain, histVars, ptVars >>

(* ------------------- enqueue on logs::log_queue ----------------------- *)
\* The header holds no producer of log_queue; the enqueue is the one the
\* specification states: take the lock, append, signal, release.
Enq_Lock(t) ==
    /\ Cpp /\ thr_pc[t] = "idle" /\ EnqCalls < budget.enq /\ log_mutex = "free"
    /\ \E level \in QueuedSeverity :
         /\ thr_level' = [ thr_level EXCEPT ![t] = level ]
         /\ thr_line' = [ thr_line EXCEPT ![t] =
                RenderLine(debug_build, level, "main", "42", BufOf(t, thr_ops[t] + 1)) ]
    /\ log_mutex' = "thread"
    /\ thr_pc' = [ thr_pc EXCEPT ![t] = "enq_push" ]
    /\ UNCHANGED << hostVars, fsVars, conVars, exitVars, log_queue, log_thread_running,
                    log_thread_joinable, cppCons, cppMain, thr_is_open, thr_ops,
                    histVars, ptVars >>

Enq_Push(t) ==
    /\ Cpp /\ thr_pc[t] = "enq_push"
    /\ log_queue' = Append(log_queue, thr_line[t])
    /\ enq_hist' = Append(enq_hist, thr_line[t])
    /\ cons_pc' = NotifyCv(cons_pc)
    /\ log_mutex' = "free"
    /\ thr_pc' = [ thr_pc EXCEPT ![t] = "idle" ]
    /\ thr_ops' = [ thr_ops EXCEPT ![t] = @ + 1 ]
    /\ thr_line' = [ thr_line EXCEPT ![t] = NoLine ]
    /\ thr_level' = [ thr_level EXCEPT ![t] = "" ]
    /\ UNCHANGED << hostVars, fsVars, conVars, exitVars, log_thread_running,
                    log_thread_joinable, cons_entry, cppMain, thr_is_open, skipped,
                    drained, ptVars >>

AppThread(t) ==
    \/ Cout_Lock(t) \/ Cout_Write(t) \/ Cout_Tail(t)
    \/ Enq_Lock(t) \/ Enq_Push(t)

(* --------------------- main and its LogThreadGuard --------------------- *)

\* A return statement of main, reached between two log calls: the scope of
\* log_guard ends and its destructor begins.
Main_Return ==
    /\ Cpp /\ guard_pc = "scope" /\ thr_pc[MainThread] = "idle"
    /\ guard_pc' = "dtor"
    /\ UNCHANGED << envVars, stop2_pc, fsVars, conVars, exitVars, cppSync, cppCons, cppMain,
                    thrVars, histVars, ptVars >>

\* The destructor has ended; main returns its value and the process ends.
Main_Exit ==
    /\ Cpp /\ guard_pc = "dtor" /\ main_pc = "idle"
    /\ ~GuardCallsStop(guard_pc, stop_calls)
    /\ guard_pc' = "gone"
    /\ exited' = TRUE
    /\ exit_status' \in {0, 1}
    /\ UNCHANGED << envVars, stop2_pc, fsVars, conVars, cppSync, cppCons, cppMain, thrVars,
                    histVars, ptVars >>

NextCpp ==
    \/ Consumer
    \/ StopLogThread
    \/ \E t \in Threads : AppThread(t)
    \/ Main_Return \/ Main_Exit

(* ============================ pthread logger =========================== *)
Pt == logger = "pthread"

\* pthread_cond_signal(&log_cv): one of the threads that wait, if any, is made
\* runnable.  The outcomes, one for each thread the signal may choose.
SignalCvLost(pc) == {pc}

SignalCv(pc) ==
    IF \A c \in PtConsumers : pc[c] # "blocked" THEN {pc}
    ELSE { [ pc EXCEPT ![c] = "woken" ] : c \in { d \in PtConsumers : pc[d] = "blocked" } }

\* log_thread_id: pthread_create stores the id of the thread it made last.
log_thread_id == IF pt_cons_pc["c2"] # "none" THEN "c2" ELSE "c1"

\* strchr(message, '[') + 1 .. strchr(level_start, ']'), copied by strncpy.
ExtractLevelPt(message) ==
    LET level_start == Find(message, "[") + 1
        rest == Substr(message, level_start, -1)
        level_end == Find(rest, "]")
    IN Join(Substr(rest, 0, level_end))

\* node = log_head; log_head = node->next; if (!log_head) log_tail = NULL;
ListTake(list) == [ node |-> Head(list), rest |-> Tail(list) ]

\* ensure_directory_exists: stat, then mkdir when the path is not there.
ensure_directory_exists(dirs, dirPath, can_mkdir) ==
    IF dirPath \notin dirs /\ can_mkdir THEN dirs \cup {dirPath} ELSE dirs

\* ensure_directory_exists(RESOURCE_PATH); snprintf(filepath, ...);
\* fp = fopen(filepath, "a"); if (fp) { fputs(message, fp); fclose(fp); }
PersistPt(message, dirs, files, fault) ==
    LET d == ensure_directory_exists(dirs, RESOURCE_PATH, fault # "mkdir")
        path == << RESOURCE_PATH, ExtractLevelPt(message) \o ".log" >>
        o == OpenAppend(files, d, path, CanOpen(fault, path))
    IN [ dirs |-> d, is_open |-> o.is_open,
         files |-> IF o.is_open THEN WriteLine(o.files, path, message) ELSE o.files ]

\* start_log_thread: pthread_create(&log_thread_id, nullptr, log_thread_func, nullptr)
Pt_Start ==
    /\ Pt /\ pt_main_pc = "start"
    /\ pt_cons_pc' = [ pt_cons_pc EXCEPT !["c1"] = "loop" ]
    /\ pt_main_pc' = "run"
    /\ UNCHANGED << hostVars, fsVars, conVars, exitVars, cppSync, cppCons, cppMain,
                    thrVars, histVars, pt_running, pt_list, pt_mutex, pt_node,
                    pt_enq_at_stop >>

\* start_log_thread, called again while the first thread runs: a second
\* pthread_create; log_thread_id now names the second thread.
Pt_StartAgain ==
    /\ Pt /\ pt_main_pc = "run" /\ pt_cons_pc["c2"] = "none"
    /\ pt_cons_pc' = [ pt_cons_pc EXCEPT !["c2"] = "loop" ]
    /\ UNCHANGED << hostVars, fsVars, conVars, exitVars, cppSync, cppCons, cppMain,
                    thrVars, histVars, pt_running, pt_list, pt_mutex, pt_node,
                    pt_main_pc, pt_enq_at_stop >>

\* start_log_thread, called after stop_log_thread has returned: a new thread
\* is created; the flag is not written.
Pt_StartAfterStopSetsFlag ==
    /\ Pt /\ pt_main_pc = "stopped" /\ pt_cons_pc["c2"] = "none"
    /\ pt_cons_pc' = [ pt_cons_pc EXCEPT !["c2"] = "loop" ]
    /\ pt_main_pc' = "restarted"
    /\ pt_running' = 1
    /\ UNCHANGED << hostVars, fsVars, conVars, exitVars, cppSync, cppCons, cppMain,
                    thrVars, histVars, pt_list, pt_mutex, pt_node, pt_enq_at_stop >>

Pt_StartAfterStop ==
    /\ Pt /\ pt_main_pc = "stopped" /\ pt_cons_pc["c2"] = "none"
    /\ pt_cons_pc' = [ pt_cons_pc EXCEPT !["c2"] = "loop" ]
    /\ pt_main_pc' = "restarted"
    /\ UNCHANGED << hostVars, fsVars, conVars, exitVars, cppSync, cppCons, cppMain,
                    thrVars, histVars, pt_running, pt_list, pt_mutex, pt_node,
                    pt_enq_at_stop >>

\* stop_log_thread: pthread_mutex_lock(&log_mutex);
Pt_StopLock ==
    /\ Pt /\ pt_main_pc = "run" /\ pt_mutex = "free"
    /\ pt_mutex' = "main"
    /\ pt_main_pc' = "stop_set"
    /\ pt_enq_at_stop' = Len(enq_hist)
    /\ UNCHANGED << hostVars, fsVars, conVars, exitVars, cppSync, cppCons, cppMain,
                    thrVars, histVars, pt_running, pt_list, pt_cons_pc, pt_node >>

\* log_thread_running = 0; pthread_cond_signal; pthread_mutex_unlock;
Pt_StopSetNoSignal ==
    /\ Pt /\ pt_main_pc = "stop_set"
    /\ pt_running' = 0
    /\ pt_mutex' = "free"
    /\ pt_main_pc' = "join"
    /\ UNCHANGED << hostVars, fsVars, conVars, exitVars, cppSync, cppCons, cppMain,
                    thrVars, histVars, pt_list, pt_cons_pc, pt_node, pt_enq_at_stop >>

Pt_StopSet ==
    /\ Pt /\ pt_main_pc = "stop_set"
    /\ pt_running' = 0
    /\ pt_cons_pc' \in SignalCv(pt_cons_pc)
    /\ pt_mutex' = "free"
    /\ pt_main_pc' = "join"
    /\ UNCHANGED << hostVars, fsVars, conVars, exitVars, cppSync, cppCons, cppMain,
                    thrVars, histVars, pt_list, pt_node, pt_enq_at_stop >>

\* pthread_join(log_thread_id, nullptr): returns once log_thread_func has returned.
Pt_Join ==
    /\ Pt /\ pt_main_pc = "join" /\ pt_cons_pc[log_thread_id] = "done"
    /\ pt_main_pc' = "stopped"
    /\ UNCHANGED << hostVars, fsVars, conVars, exitVars, cppSync, cppCons, cppMain,
                    thrVars, histVars, pt_running, pt_list, pt_mutex, pt_cons_pc,
                    pt_node, pt_enq_at_stop >>

\* log_message: the message is formatted, the node allocated, the lock taken.
Msg_Lock(t) ==
    /\ Pt /\ thr_pc[t] = "idle" /\ EnqCalls < budget.enq /\ pt_mutex = "free"
    /\ \E level \in QueuedSeverity :
         /\ thr_level' = [ thr_level EXCEPT ![t] = level ]
         /\ thr_line' = [ thr_line EXCEPT ![t] =
                RenderLine(debug_build, level, "main", "42", BufOf(t, thr_ops[t] + 1)) ]
    /\ pt_mutex' = "thread"
    /\ thr_pc' = [ thr_pc EXCEPT ![t] = "enq_push" ]
    /\ UNCHANGED << hostVars, fsVars, conVars, exitVars, cppSync, cppCons, cppMain,
                    thr_is_open, thr_ops, histVars, pt_running, pt_list, pt_cons_pc,
                    pt_node, pt_main_pc, pt_enq_at_stop >>

\* The node is linked after log_tail; pthread_cond_signal; pthread_mutex_unlock.
Msg_Push(t) ==
    /\ Pt /\ thr_pc[t] = "enq_push"
    /\ pt_list' = Append(pt_list, thr_line[t])
    /\ enq_hist' = Append(enq_hist, thr_line[t])
    /\ pt_cons_pc' \in SignalCv(pt_cons_pc)
    /\ pt_mutex' = "free"
    /\ thr_pc' = [ thr_pc EXCEPT ![t] = "idle" ]
    /\ thr_ops' = [ thr_ops EXCEPT ![t] = @ + 1 ]
    /\ thr_line' = [ thr_line EXCEPT ![t] = NoLine ]
    /\ thr_level' = [ thr_level EXCEPT ![t] = "" ]
    /\ UNCHANGED << hostVars, fsVars, conVars, exitVars, cppSync, cppCons, cppMain,
                    thr_is_open, skipped, drained, pt_running, pt_node, pt_main_pc,
                    pt_enq_at_stop >>

\* log_thread_func: while (log_thread_running)        (no lock is held)
Ptf_Loop(c) ==
    /\ Pt /\ pt_cons_pc[c] = "loop"
    /\ pt_cons_pc' = [ pt_cons_pc EXCEPT ![c] = IF pt_running # 0 THEN "lock" ELSE "done" ]
    /\ UNCHANGED << hostVars, fsVars, conVars, exitVars, cppSync, cppCons, cppMain,
                    thrVars, histVars, pt_running, pt_list, pt_mutex, pt_node,
                    pt_main_pc, pt_enq_at_stop >>

\* pthread_mutex_lock(&log_mutex);
Ptf_Lock(c) ==
    /\ Pt /\ pt_cons_pc[c] = "lock" /\ pt_mutex = "free"
    /\ pt_mutex' = c
    /\ pt_cons_pc' = [ pt_cons_pc EXCEPT ![c] = "check" ]
    /\ UNCHANGED << hostVars, fsVars, conVars, exitVars, cppSync, cppCons, cppMain,
                    thrVars, histVars, pt_running, pt_list, pt_node, pt_main_pc,
                    pt_enq_at_stop >>

\* while (log_head == NULL && log_thread_running) pthread_cond_wait(...);
\* the test and the wait happen with the lock held; the wait releases it.
Ptf_Check(c) ==
    /\ Pt /\ pt_cons_pc[c] = "check"
    /\ IF pt_list = << >> /\ pt_running # 0
       THEN pt_mutex' = "free" /\ pt_cons_pc' = [ pt_cons_pc EXCEPT ![c] = "blocked" ]
       ELSE pt_cons_pc' = [ pt_cons_pc EXCEPT ![c] = "inner" ] /\ UNCHANGED pt_mutex
    /\ UNCHANGED << hostVars, fsVars, conVars, exitVars, cppSync, cppCons, cppMain,
                    thrVars, histVars, pt_running, pt_list, pt_node, pt_main_pc,
                    pt_enq_at_stop >>

\* pthread_cond_wait returns: the lock is taken again, the test is made again.
Ptf_Wake(c) ==
    /\ Pt /\ pt_cons_pc[c] = "woken" /\ pt_mutex = "free"
    /\ pt_mutex' = c
    /\ pt_cons_pc' = [ pt_cons_pc EXCEPT ![c] = "check" ]
    /\ UNCHANGED << hostVars, fsVars, conVars, exitVars, cppSync, cppCons, cppMain,
                    thrVars, histVars, pt_running, pt_list, pt_node, pt_main_pc,
                    pt_enq_at_stop >>

\* while (log_head) { node = log_head; log_head = node->next; unlock; ...
\* and, on an empty list, the unlock that ends the outer loop's body.
Ptf_Inner(c) ==
    /\ Pt /\ pt_cons_pc[c] = "inner"
    /\ IF pt_list # << >>
       THEN /\ pt_node' = [ pt_node EXCEPT ![c] = ListTake(pt_list).node ]
            /\ pt_list' = ListTake(pt_list).rest
            /\ pt_cons_pc' = [ pt_cons_pc EXCEPT ![c] = "write" ]
       ELSE /\ pt_cons_pc' = [ pt_cons_pc EXCEPT ![c] = "loop" ]
            /\ UNCHANGED << pt_node, pt_list >>
    /\ pt_mutex' = "free"
    /\ UNCHANGED << hostVars, fsVars, conVars, exitVars, cppSync, cppCons, cppMain,
                    thrVars, histVars, pt_running, pt_main_pc, pt_enq_at_stop >>

\* The level is read from the message, the file is appended to, the node freed.
Ptf_Write(c) ==
    /\ Pt /\ pt_cons_pc[c] = "write"
    /\ \E r \in {PersistPt(pt_node[c], fs_dirs, fs_files, fs_fault)} :
          /\ fs_dirs' = r.dirs
          /\ fs_files' = r.files
          /\ skipped' = IF r.is_open THEN skipped ELSE skipped \cup {pt_node[c]}
    /\ pt_node' = [ pt_node EXCEPT ![c] = NoLine ]
    /\ pt_cons_pc' = [ pt_cons_pc EXCEPT ![c] = "relock" ]
    /\ UNCHANGED << hostVars, conVars, exitVars, cppSync, cppCons, cppMain, thrVars,
                    enq_hist, drained, pt_running, pt_list, pt_mutex, pt_main_pc,
                    pt_enq_at_stop >>

\* pthread_mutex_lock(&log_mutex); at the end of the inner loop's body.
Ptf_Relock(c) ==
    /\ Pt /\ pt_cons_pc[c] = "relock" /\ pt_mutex = "free"
    /\ pt_mutex' = c
    /\ pt_cons_pc' = [ pt_cons_pc EXCEPT ![c] = "inner" ]
    /\ UNCHANGED << hostVars, fsVars, conVars, exitVars, cppSync, cppCons, cppMain,
                    thrVars, histVars, pt_running, pt_list, pt_node, pt_main_pc,
                    pt_enq_at_stop >>

NextPt ==
    \/ Pt_Start \/ Pt_StopLock \/ Pt_StopSet \/ Pt_Join
    \/ \E c \in PtConsumers :
          \/ Ptf_Loop(c) \/ Ptf_Lock(c) \/ Ptf_Check(c) \/ Ptf_Wake(c) \/ Ptf_Inner(c)
          \/ Ptf_Write(c) \/ Ptf_Relock(c)
    \/ \E t \in Threads : Msg_Lock(t) \/ Msg_Push(t)

Next == NextCpp \/ NextPt

Spec == Init /\ [][Next]_vars

\* The pthread logger alone, on a file system whose operations succeed, under
\* a scheduler that does not stop all the threads for ever: while a thread
\* running log_thread_func, a thread inside log_message or the thread inside
\* stop_log_thread can take a step, one of them takes a step in the end.  The
\* host is not bound to call log_message, start_log_thread or stop_log_thread.
InitPt == InitWith({"none"}) /\ logger = "pthread"

PtConsumerNext(c) ==
    \/ Ptf_Loop(c) \/ Ptf_Lock(c) \/ Ptf_Check(c) \/ Ptf_Wake(c) \/ Ptf_Inner(c)
    \/ Ptf_Write(c) \/ Ptf_Relock(c)

PtProgress ==
    \/ \E c \in PtConsumers : PtConsumerNext(c)
    \/ \E t \in Threads : Msg_Push(t)
    \/ Pt_StopSet
    \/ Pt_Join

PtFairness == WF_vars(PtProgress)

FairSpecPt == InitPt /\ [][NextPt]_vars /\ PtFairness

\* The same program on a file system that refuses one file.
SpecOneFile == InitOneFile /\ [][Next]_vars

\* The C++ logger in a host where a second thread calls stopLogThread too.
InitTwoStops == InitWith({"none"}) /\ logger = "cpp"

NextTwoStops == NextCpp \/ StopLogThread2 \/ Stop_JoinRaced

SpecTwoStops == InitTwoStops /\ [][NextTwoStops]_vars

\* A host that also calls start_log_thread once more after stop_log_thread.
NextStopStart == Next \/ Pt_StartAfterStop

SpecStopStart == Init /\ [][NextStopStart]_vars

\* A host that calls start_log_thread a second time, at any moment.
NextRestart == Next \/ Pt_StartAgain \/ Pt_StartAfterStop

SpecRestart == Init /\ [][NextRestart]_vars

(* ============================== properties ============================= *)
Range(seq) == { seq[i] : i \in 1..Len(seq) }

\* The position of a line in a sequence that holds it.
PosIn(seq, x) == CHOOSE i \in 1..Len(seq) : seq[i] = x

\* How often a line occurs in a sequence.
Occurrences(seq, x) == Cardinality({ i \in 1..Len(seq) : seq[i] = x })

\* The output root of the logger in use, and the file of a severity under it.
RootDir == IF logger = "cpp" THEN LOG_OUTPUT_PATH ELSE RESOURCE_PATH

LevelFile(level) == << RootDir, level \o ".log" >>

FileLines(path) == IF path \in DOMAIN fs_files THEN fs_files[path] ELSE << >>

\* The severity a line was logged at: the second piece of the rendered line.
LoggedLevel(line) == line[2]

Persisted(line) == line \in Range(FileLines(LevelFile(LoggedLevel(line))))

\* C1: when stopLogThread returns, every entry that was pushed onto log_queue
\* before the final drain took log_mutex is in the file of its level (or its
\* file could not be opened); the queue is empty and the consumer holds none.
C1_NoLossOnShutdown ==
    (logger = "cpp" /\ main_pc = "return") =>
        /\ log_queue = << >>
        /\ cons_entry = NoLine
        /\ \A e \in Range(enq_hist) : Persisted(e) \/ e \in skipped
        /\ fs_fault = "none" => skipped = {}

\* A shutdown returns after its final drain wrote an entry the consumer left.
C1_Witness ==
    /\ logger = "cpp" /\ main_pc = "return" /\ fs_fault = "none"
    /\ drained # {}
    /\ Len(enq_hist) >= 2
    /\ \A e \in Range(enq_hist) : Persisted(e)

\* C2: a call of stopLogThread always returns; as a property of finite runs:
\* the system never comes to rest while the call is under way.
C2_StopNeverStuck ==
    (logger = "cpp" /\ ~exited /\ main_pc # "idle") => ENABLED Next

\* C3: pthread logger: all producers have finished before stop_log_thread is
\* called and no file operation fails; when stop_log_thread has returned, each
\* enqueued line is in its level's file exactly once and the files hold
\* nothing else.
C3_PthreadNoLoss ==
    (/\ logger = "pthread" /\ pt_main_pc = "stopped" /\ fs_fault = "none"
     /\ pt_enq_at_stop = Len(enq_hist)
     /\ \A t \in Threads : thr_pc[t] = "idle") =>
        /\ \A e \in Range(enq_hist) :
             Occurrences(FileLines(LevelFile(LoggedLevel(e))), e) = 1
        /\ \A p \in DOMAIN fs_files : Range(fs_files[p]) \subseteq Range(enq_hist)

\* C4: in every log file the queued lines stand in the order in which they
\* were appended to the queue.
C4_QueueOrder ==
    \A p \in DOMAIN fs_files :
        \A i, j \in 1..Len(fs_files[p]) :
            (/\ i < j
             /\ fs_files[p][i] \in Range(enq_hist)
             /\ fs_files[p][j] \in Range(enq_hist)) =>
                PosIn(enq_hist, fs_files[p][i]) < PosIn(enq_hist, fs_files[p][j])

\* A file holds two queued lines, in either logger.
C4_Witness ==
    \E p \in DOMAIN fs_files :
        /\ Len(fs_files[p]) >= 2
        /\ Range(fs_files[p]) \subseteq Range(enq_hist)

\* C5: a step of a later call of stopLogThread, taken with log_queue empty,
\* changes no file, not the queue, not the flag, and does not join again; and
\* the system never comes to rest inside a later call (the call goes on to
\* its return).
C5_SecondStopNoOp ==
    /\ [][ (/\ logger = "cpp" /\ stop_calls >= 1 /\ log_queue = << >>
            /\ main_pc' # main_pc) =>
               /\ fs_files' = fs_files
               /\ fs_dirs' = fs_dirs
               /\ log_queue' = log_queue
               /\ log_thread_running' = log_thread_running
               /\ log_thread_joinable' = log_thread_joinable
               /\ main_pc' # "join" ]_vars
    /\ []((logger = "cpp" /\ ~exited /\ stop_calls >= 1 /\ main_pc # "idle")
             => ENABLED Next)

\* The second call has returned, after a first call that had lines to persist.
C5_Witness ==
    /\ logger = "cpp" /\ stop_calls = 2 /\ main_pc = "idle"
    /\ enq_hist # << >> /\ log_queue = << >>
    /\ \A e \in Range(enq_hist) : Persisted(e)

\* C6: every line of a log file stands in the file named after the severity
\* the line was logged at, under the output root.
C6_LevelRouting ==
    \A p \in DOMAIN fs_files :
        \A i \in 1..Len(fs_files[p]) : p = LevelFile(LoggedLevel(fs_files[p][i]))

\* WARN.log and ERROR.log both hold a line.
C6_Witness ==
    /\ logger = "cpp"
    /\ FileLines(LevelFile("WARN")) # << >>
    /\ FileLines(LevelFile("ERROR")) # << >>

\* The step that ends thread t's COUT_ call (output, then exit or return).
CoutEnds(t) == thr_pc[t] = "cout_tail" /\ thr_pc'[t] # "cout_tail"

\* C7: a FATAL call ends the process with a non-zero status and does not
\* return; if the file was opened, the line is in FATAL.log before the exit;
\* nothing runs after the exit.
C7_FatalTerminates ==
    [][ /\ ~exited
        /\ \A t \in Threads :
             (CoutEnds(t) /\ thr_level[t] = "FATAL") =>
                /\ exited' /\ exit_status' # 0
                /\ thr_pc'[t] = "exit"
                /\ thr_is_open[t] =>
                     thr_line[t] \in Range(FileLines(LevelFile("FATAL"))) ]_vars

\* The process has exited in a FATAL call whose line is in FATAL.log.
C7_Witness ==
    \E t \in Threads :
        /\ exited /\ thr_pc[t] = "exit" /\ thr_is_open[t]
        /\ thr_line[t] \in Range(FileLines(LevelFile("FATAL")))

\* C8: a FATAL call whose file could not be opened ends the process too.
C8_FatalExitsWithoutFile ==
    [][ \A t \in Threads :
          (CoutEnds(t) /\ thr_level[t] = "FATAL" /\ ~thr_is_open[t]) =>
             exited' /\ exit_status' # 0 ]_vars

\* The process has exited in a FATAL call that wrote no file.
C8_Witness ==
    \E t \in Threads :
        /\ exited /\ thr_pc[t] = "exit" /\ ~thr_is_open[t]
        /\ FileLines(LevelFile("FATAL")) = << >>

\* The step in which thread t's COUT_ call tries to write its file.
CoutWrites(t) == thr_pc[t] = "cout_write" /\ thr_pc'[t] = "cout_tail"

\* C9: a call below FATAL whose file cannot be opened writes no file, leaves
\* the queue and the flag as they are, puts its line on standard output and
\* returns.
C9_FailureIsSilent ==
    [][ \A t \in Threads :
          /\ (CoutWrites(t) /\ ~thr_is_open'[t]) =>
                /\ fs_files' = fs_files
                /\ log_queue' = log_queue
                /\ log_thread_running' = log_thread_running
          /\ (CoutEnds(t) /\ thr_level[t] # "FATAL" /\ ~thr_is_open[t]) =>
                /\ thr_pc'[t] = "idle"
                /\ ~exited'
                /\ std_out' = Append(std_out, thr_line[t])
                /\ fs_files' = fs_files
                /\ log_queue' = log_queue
                /\ log_thread_running' = log_thread_running ]_vars

\* A call below FATAL has returned with its line on standard output and no file.
C9_Witness ==
    /\ logger = "cpp" /\ ~exited /\ fs_fault # "none"
    /\ std_out # << >>
    /\ fs_files = << >>
    /\ \E t \in Threads : thr_pc[t] = "idle" /\ thr_ops[t] >= 1

\* A step in which a line is handed to a file: by COUT_, by either consumer,
\* by the final drain; and the line.
PersistStep ==
    \/ \E t \in Threads : CoutWrites(t)
    \/ cons_pc = "write" /\ cons_pc' = "relock"
    \/ main_pc = "drain" /\ log_queue' # log_queue
    \/ \E c \in PtConsumers : pt_cons_pc[c] = "write" /\ pt_cons_pc'[c] = "relock"

PersistedLine ==
    IF cons_pc = "write" /\ cons_pc' = "relock" THEN cons_entry
    ELSE IF main_pc = "drain" /\ log_queue' # log_queue THEN Head(log_queue)
    ELSE IF \E c \in PtConsumers : pt_cons_pc[c] = "write" /\ pt_cons_pc'[c] = "relock"
         THEN pt_node[CHOOSE c \in PtConsumers :
                         pt_cons_pc[c] = "write" /\ pt_cons_pc'[c] = "relock"]
    ELSE thr_line[CHOOSE t \in Threads : CoutWrites(t)]

\* C10: every step that hands a line to a file first creates the output root:
\* unless creating it fails the root exists afterwards, and unless a file
\* operation fails the file named after the severity exists and ends with the
\* line; files exist in existing directories only.
C10_DirectoryBeforeWrite ==
    [][ /\ PersistStep =>
             /\ fs_fault # "mkdir" => RootDir \in fs_dirs'
             /\ fs_fault = "none" =>
                  LET p == LevelFile(LoggedLevel(PersistedLine))
                  IN /\ p \in DOMAIN fs_files'
                     /\ fs_files'[p][Len(fs_files'[p])] = PersistedLine
        /\ \A p \in DOMAIN fs_files' : p[1] \in fs_dirs' ]_vars

\* The first log call made the output root and the file of its severity.
C10_Witness ==
    /\ fs_dirs = {RootDir}
    /\ \E p \in DOMAIN fs_files :
         /\ DOMAIN fs_files = {p}
         /\ Len(fs_files[p]) = 1
         /\ p = LevelFile(LoggedLevel(fs_files[p][1]))

\* C11: the step that ends a COUT_ call puts the line on standard output, and
\* on standard error exactly when the severity is ERROR or FATAL.
C11_ConsoleStreams ==
    [][ \A t \in Threads :
          CoutEnds(t) =>
             /\ std_out' = Append(std_out, thr_line[t])
             /\ std_err' = IF thr_level[t] \in {"ERROR", "FATAL"}
                           THEN Append(std_err, thr_line[t])
                           ELSE std_err ]_vars

\* A step of thread t's COUT_ call: entry, write block, tail.
CoutStep(t) ==
    \/ thr_pc[t] = "idle" /\ thr_pc'[t] = "cout_write"
    \/ CoutWrites(t)
    \/ CoutEnds(t)

\* The lines that COUT_ calls have rendered so far: those of the calls that
\* have ended, and those of the calls under way.
CoutLines ==
    Range(std_out) \cup { thr_line[t] : t \in { u \in Threads :
                                thr_pc[u] \in {"cout_write", "cout_tail", "exit"} } }

\* C12: a COUT_ call, at any severity, has handed its line to the file of the
\* severity by the time it leaves its write block (the file holds the line
\* unless it could not be opened), no step of the call changes log_queue, and
\* no line of a COUT_ call is ever in the queue or in the consumer's hands.
C12_SynchronousOnly ==
    /\ [](\A t \in Threads :
            (thr_pc[t] \in {"cout_tail", "exit"} /\ fs_fault = "none") =>
                /\ thr_is_open[t]
                /\ thr_line[t] \in Range(FileLines(LevelFile(thr_level[t]))))
    /\ [](\A l \in CoutLines :
            /\ l \notin Range(log_queue)
            /\ l # cons_entry
            /\ l \notin drained)
    /\ [][ \A t \in Threads : CoutStep(t) => log_queue' = log_queue ]_vars

\* A COUT_ call at INFO has returned with its line in INFO.log, while the queue
\* holds an entry of another origin.
C12_Witness ==
    /\ logger = "cpp" /\ fs_fault = "none"
    /\ log_queue # << >>
    /\ \E l \in Range(std_out) : LoggedLevel(l) = "INFO" /\ Persisted(l)

\* The threads that are running log_thread_func.
ActiveConsumers == { c \in PtConsumers : pt_cons_pc[c] \notin {"none", "done"} }

\* C13: at most one consumer thread is active at any time, after any sequence
\* of calls of start_log_thread and stop_log_thread.
C13_OneConsumer == logger = "pthread" => Cardinality(ActiveConsumers) <= 1

\* C14: the running flag of either logger changes only from true to false and
\* only in the step of the shutdown operation that clears it; a consumer
\* thread that finds the flag cleared at its first test ends without a pass.
C14_FlagMonotone ==
    [][ /\ log_thread_running' # log_thread_running =>
             /\ log_thread_running /\ ~log_thread_running'
             /\ main_pc = "idle" /\ main_pc' = "notify"
        /\ pt_running' # pt_running =>
             /\ pt_running = 1 /\ pt_running' = 0
             /\ pt_main_pc = "stop_set" /\ pt_main_pc' = "join"
        /\ \A c \in PtConsumers :
             (pt_running = 0 /\ pt_cons_pc[c] = "loop") =>
                 pt_cons_pc'[c] \in {"loop", "done"} ]_vars

\* start_log_thread was called after stop_log_thread had returned: the new
\* thread has ended, the flag is still cleared, a queued line is left.
C14_Witness ==
    /\ logger = "pthread" /\ pt_main_pc = "restarted"
    /\ pt_cons_pc["c2"] = "done"
    /\ pt_running = 0
    /\ pt_list # << >>

\* s is an initial part of t.
IsPrefix(s, t) == Len(s) <= Len(t) /\ SubSeq(t, 1, Len(s)) = s

\* C15: every step leaves each log file in place, its previous content an
\* initial part of its new content.
C15_AppendOnly ==
    [][ \A p \in DOMAIN fs_files :
          /\ p \in DOMAIN fs_files'
          /\ IsPrefix(fs_files[p], fs_files'[p]) ]_vars

\* INFO.log holds a line written by COUT_ and a line that came through the
\* queue.
C15_Witness ==
    /\ logger = "cpp"
    /\ \E i, j \in 1..Len(FileLines(LevelFile("INFO"))) :
          /\ FileLines(LevelFile("INFO"))[i] \in Range(enq_hist)
          /\ FileLines(LevelFile("INFO"))[j] \in Range(std_out)

\* The file a thread is about to append to, for the threads that stand
\* before an append: a COUT_ caller, the consumer, the final drain.
CoutTarget(t) == LevelFile(thr_level[t])

ConsumerTarget == LevelFile(ExtractLevel(cons_entry))

\* C16: every append of the C++ logger is made by a thread that holds
\* log_mutex, and no two threads stand before an append to the same file at
\* the same time.
C16_WritesUnderLock ==
    /\ [][ /\ \A t \in Threads : CoutWrites(t) => log_mutex = "thread"
           /\ (cons_pc = "write" /\ cons_pc' = "relock") => log_mutex = "consumer"
           /\ (main_pc = "drain" /\ log_queue' # log_queue) => log_mutex = "main" ]_vars
    /\ [](\A t \in Threads :
            ~(/\ logger = "cpp" /\ thr_pc[t] = "cout_write" /\ cons_pc = "write"
              /\ CoutTarget(t) = ConsumerTarget))

\* The piece of a rendered line that holds the text of the call.
BufPiece(line) == line[Len(line) - 1]

\* The lines of thread t's k-th call: the line was rendered by COUT_ in that
\* call (it did not go through the queue).
IsCoutLineOf(line, t, k) == line \notin Range(enq_hist) /\ BufPiece(line) = BufOf(t, k)

C18_GuardStopsOnce ==
    /\ [](guard_pc = "gone" => (stop_calls = 1 /\ main_pc = "idle"))
    /\ [](guard_pc \in {"scope", "dtor"} => stop_calls <= 1)
    /\ [](guard_pc = "scope" => (stop_calls = 0 /\ main_pc = "idle"))
    /\ [](guard_pc \in {"dtor", "gone"} => \A t \in Threads : thr_pc[t] = "idle")
    /\ [][ (guard_pc \in {"dtor", "gone"}) =>
               /\ std_out' = std_out
               /\ thr_pc' = thr_pc ]_vars

\* main has made its log calls and returned; the destructor has run
\* stopLogThread, once.
C18_Witness ==
    /\ guard_pc = "gone" /\ stop_calls = 1
    /\ Len(std_out) = budget.cout
    /\ \A l \in Range(std_out) : Persisted(l) \/ fs_fault # "none"

\* C19: stopLogThread takes its steps in the order: clear the flag, notify,
\* test joinable and join, take log_mutex, drain, return.  From the moment it
\* asks for log_mutex the consumer thread has ended, so the queue is never
\* popped by the consumer while the final drain is under way, nor by the
\* final drain while the consumer lives.
C19_ShutdownOrder ==
    /\ [][ (logger = "cpp" /\ main_pc' # main_pc) =>
             \/ main_pc = "idle" /\ main_pc' = "notify" /\ ~log_thread_running'
             \/ main_pc = "notify" /\ main_pc' = "joinable"
             \/ main_pc = "joinable" /\ main_pc' = "join" /\ log_thread_joinable
             \/ main_pc = "joinable" /\ main_pc' = "lock" /\ ~log_thread_joinable
             \/ main_pc = "join" /\ main_pc' = "lock" /\ cons_pc = "done"
             \/ main_pc = "lock" /\ main_pc' = "drain" /\ log_mutex' = "main"
             \/ main_pc = "drain" /\ main_pc' = "return" /\ log_queue = << >>
             \/ main_pc = "return" /\ main_pc' = "idle" ]_vars
    /\ []((logger = "cpp" /\ main_pc \in {"lock", "drain", "return"}) =>
             /\ cons_pc = "done"
             /\ ~log_thread_running
             /\ ~log_thread_joinable)
    /\ []((logger = "cpp" /\ main_pc \in {"drain", "return"}) => log_mutex = "main")
    /\ [][ (logger = "cpp" /\ Len(log_queue') < Len(log_queue)) =>
             \/ cons_pc = "inner" /\ main_pc \in {"idle", "notify", "joinable", "join"}
             \/ main_pc = "drain" /\ cons_pc = "done" ]_vars

\* The first call drains, after the join, an entry the consumer left.
C19_Witness ==
    /\ logger = "cpp" /\ stop_calls = 0
    /\ main_pc = "drain" /\ log_queue # << >>
    /\ cons_pc = "done" /\ ~log_thread_joinable

\* C20: neither consumer holds the queue's mutex while it resolves the path
\* and writes the file; a consumer holds the mutex only around the test of
\* the queue and the removal of one entry.
C20_ConsumerIoUnlocked ==
    /\ cons_pc \in {"write", "relock"} => log_mutex # "consumer"
    /\ log_mutex = "consumer" => cons_pc \in {"pred", "wait", "inner"}
    /\ \A c \in PtConsumers :
          /\ pt_cons_pc[c] \in {"write", "relock"} => pt_mutex # c
          /\ pt_mutex = c => pt_cons_pc[c] \in {"check", "inner"}

\* A producer holds the mutex and appends while the consumer stands before
\* its file write.
C20_Witness ==
    /\ logger = "cpp" /\ cons_pc = "write"
    /\ \E t \in Threads : thr_pc[t] = "enq_push" /\ log_mutex = "thread"

\* The step in which a consumer removes an entry from its queue.
CppPops == cons_pc = "inner" /\ cons_pc' = "write"

PtPops(c) == pt_cons_pc[c] = "inner" /\ pt_cons_pc'[c] = "write"

\* C21, as stated: the consumer empties the queue in the critical section in
\* which it removes an entry (the whole content becomes its batch), so the
\* shared queue is empty when it releases the lock to persist.
C21_BatchDrain ==
    [][ /\ CppPops => log_queue' = << >>
        /\ \A c \in PtConsumers : PtPops(c) => pt_list' = << >> ]_vars

\* C21, amended: the consumer removes one entry in a critical section, the
\* oldest, and releases the lock; the rest of the queue stays; the entry it
\* holds is the only one it holds and is no longer in the queue.
C21_OneEntryPerSection ==
    /\ [][ /\ CppPops =>
               /\ log_queue # << >>
               /\ cons_entry = NoLine
               /\ cons_entry' = Head(log_queue)
               /\ log_queue' = Tail(log_queue)
               /\ log_mutex = "consumer" /\ log_mutex' = "free"
           /\ \A c \in PtConsumers :
                PtPops(c) =>
                   /\ pt_list # << >>
                   /\ pt_node[c] = NoLine
                   /\ pt_node'[c] = Head(pt_list)
                   /\ pt_list' = Tail(pt_list)
                   /\ pt_mutex = c /\ pt_mutex' = "free" ]_vars
    /\ [](cons_entry # NoLine => cons_entry \notin Range(log_queue))
    /\ [](\A c \in PtConsumers :
            pt_node[c] # NoLine => pt_node[c] \notin Range(pt_list))

\* The consumer stands before the write of one entry while another entry,
\* queued before its wake-up ended, is still in the queue.
C21_Witness ==
    /\ logger = "cpp" /\ cons_pc = "write"
    /\ log_queue # << >>
    /\ \A t \in Threads : thr_pc[t] = "idle"

\* C22: every step that reads or writes the running flag or the queue is
\* taken by a thread that holds the logger's mutex.
C22_SharedStateUnderLock ==
    [][ /\ (cons_pc = "loop" /\ cons_pc' # "loop") => log_mutex = "consumer"
        /\ (cons_pc \in {"pred", "inner"} /\ cons_pc' # cons_pc) => log_mutex = "consumer"
        /\ (main_pc = "idle" /\ main_pc' = "notify") => log_mutex = "main"
        /\ (main_pc = "drain" /\ main_pc' # main_pc) => log_mutex = "main"
        /\ log_queue' # log_queue => log_mutex # "free"
        /\ \A c \in PtConsumers :
             /\ (pt_cons_pc[c] = "loop" /\ pt_cons_pc'[c] # "loop") => pt_mutex = c
             /\ (pt_cons_pc[c] \in {"check", "inner"} /\ pt_cons_pc'[c] # pt_cons_pc[c])
                  => pt_mutex = c
        /\ pt_running' # pt_running => pt_mutex = "main"
        /\ pt_list' # pt_list => pt_mutex # "free" ]_vars

\* The step in which a consumer or the final drain tries to write an entry,
\* and fails to open the file.
CppWriteFails == cons_pc = "write" /\ cons_pc' # "write" /\ skipped' # skipped

DrainWriteFails == main_pc = "drain" /\ log_queue' # log_queue /\ skipped' # skipped

PtWriteFails(c) ==
    pt_cons_pc[c] = "write" /\ pt_cons_pc'[c] # "write" /\ skipped' # skipped

\* Where a queued entry is: still queued, in a consumer's hands, given up
\* after a failed open, or in its file.
Accounted(e) ==
    \/ e \in Range(log_queue) \/ e \in Range(pt_list)
    \/ e = cons_entry \/ \E c \in PtConsumers : e = pt_node[c]
    \/ e \in skipped
    \/ Persisted(e)

\* C23: a failed open discards the one entry and nothing else: the file
\* system and the queue stay as they are and the consumer (the final drain)
\* goes on with its loop; a consumer ends only after the flag was cleared;
\* no queued entry vanishes unattempted; and when stopLogThread returns,
\* every entry whose file can be opened is in its file, also the entries
\* queued behind one that failed.
C23_SkipAndContinue ==
    /\ [][ /\ CppWriteFails =>
               /\ cons_pc' = "relock"
               /\ fs_files' = fs_files /\ log_queue' = log_queue
           /\ DrainWriteFails =>
               /\ main_pc' = "drain"
               /\ fs_files' = fs_files /\ log_queue' = Tail(log_queue)
           /\ \A c \in PtConsumers :
                PtWriteFails(c) =>
                   /\ pt_cons_pc'[c] = "relock"
                   /\ fs_files' = fs_files /\ pt_list' = pt_list ]_vars
    /\ [](cons_pc = "done" => ~log_thread_running)
    /\ [](\A c \in PtConsumers : pt_cons_pc[c] = "done" => pt_running = 0)
    /\ [](\A e \in Range(enq_hist) : Accounted(e))
    /\ []((logger = "cpp" /\ main_pc = "return") =>
             \A e \in Range(enq_hist) :
                IF CanOpen(fs_fault, LevelFile(LoggedLevel(e)))
                THEN Persisted(e) /\ e \notin skipped
                ELSE e \in skipped /\ ~Persisted(e))

\* The consumer thread failed to open INFO.log for the first entry and wrote
\* the second entry, a WARN line, to WARN.log; the final drain had nothing
\* left to do.
C23_Witness ==
    /\ logger = "cpp" /\ main_pc = "return" /\ drained = {}
    /\ Len(enq_hist) = 2
    /\ LoggedLevel(enq_hist[1]) = "INFO" /\ enq_hist[1] \in skipped
    /\ LoggedLevel(enq_hist[2]) = "WARN" /\ Persisted(enq_hist[2])

\* C24: pthread logger: once the consumer thread exists and while the flag
\* stays 1, again and again every entry appended by log_message so far is in
\* the file of its level (a line written to a file stays there, so each
\* entry is written in the end); and a consumer waits on the condition
\* variable only while the list is empty and the flag is set, so no signal
\* of an enqueue is lost and the consumer does not poll.
C24_PtEventuallyWritten ==
    /\ []<>( \/ pt_cons_pc["c1"] = "none"
             \/ pt_running = 0
             \/ \A e \in Range(enq_hist) : Persisted(e) )
    /\ [](\A c \in PtConsumers :
            pt_cons_pc[c] = "blocked" => (pt_list = << >> /\ pt_running = 1))

\* The consumer has written every line that was appended, the flag still set,
\* and waits again.
C24_Witness ==
    /\ logger = "pthread" /\ pt_running = 1 /\ fs_fault = "none"
    /\ pt_cons_pc["c1"] = "blocked"
    /\ Len(enq_hist) = MaxEnq
    /\ \A e \in Range(enq_hist) : Persisted(e)

\* C25: pthread logger: no call of stop_log_thread that has taken the mutex
\* stays inside stop_log_thread for ever, whatever the producers and the
\* consumer do meanwhile: it clears the flag, is joined to the consumer and
\* returns.
C25_PtStopReturns ==
    /\ []<>(pt_main_pc \notin {"stop_set", "join"})
    /\ [](pt_main_pc = "stopped" => (pt_running = 0 /\ pt_cons_pc["c1"] = "done"))

\* stop_log_thread has returned; the consumer was waiting when it was called
\* and a producer was inside log_message.
C25_Witness ==
    /\ logger = "pthread" /\ pt_main_pc = "stopped"
    /\ pt_cons_pc["c1"] = "done"
    /\ pt_enq_at_stop < Len(enq_hist)

\* C26: a line rendered at severity S, in either layout, gives back S when
\* the level is cut out of it as the consumer thread and the final drain do,
\* and so names the file the synchronous writer uses for S: for the line a
\* caller has rendered, for the entries in the queue and for the entry the
\* consumer holds.
C26_LevelRoundTrip ==
    [](logger = "cpp" =>
        /\ \A t \in Threads :
              thr_line[t] # NoLine =>
                 LET level == ExtractLevel(thr_line[t])
                 IN /\ level = thr_level[t]
                    /\ getLogFilePath(level, fs_dirs, TRUE).path
                          = getLogFilePath(thr_level[t], fs_dirs, TRUE).path
        /\ \A e \in Range(log_queue) \cup ({cons_entry} \ {NoLine}) :
              LET level == ExtractLevel(e)
              IN level = LoggedLevel(e) /\ level \in Severity)

\* In the layout of a debug build: the consumer holds a DEBUG entry it is
\* about to route while a caller of COUT_ has rendered a FATAL line.
C26_Witness ==
    /\ logger = "cpp" /\ debug_build
    /\ cons_pc = "write" /\ ExtractLevel(cons_entry) = "DEBUG"
    /\ \E t \in Threads : thr_pc[t] = "cout_write" /\ thr_level[t] = "FATAL"

\* C27: once a call of stopLogThread has returned, logThreadFunc has ended
\* and holds no entry; from then on nothing takes an entry out of log_queue
\* but the final drain of a later call of stopLogThread, so an entry pushed
\* afterwards stays in the queue; and an entry in the queue is in no file.
C27_NoConsumerAfterStop ==
    /\ []((logger = "cpp" /\ stop_calls >= 1) =>
             (cons_pc = "done" /\ cons_entry = NoLine))
    /\ [][ (logger = "cpp" /\ stop_calls >= 1 /\ main_pc # "drain") =>
              IsPrefix(log_queue, log_queue') ]_vars
    /\ [](logger = "cpp" =>
             \A e \in Range(log_queue) :
                 \A p \in DOMAIN fs_files : e \notin Range(fs_files[p]))

\* stopLogThread has returned once, nobody is inside it, and an entry pushed
\* after the return lies in the queue, in no file.
C27_Witness ==
    /\ logger = "cpp" /\ stop_calls = 1 /\ main_pc = "idle"
    /\ log_queue # << >> /\ ~Persisted(Head(log_queue))
    /\ \E e \in Range(enq_hist) : Persisted(e)

\* C28: every entry placed in a queue stands at most once in the files, in
\* either logger; a consumer and the final drain never hold the same entry:
\* what the consumer holds is neither in the queue nor in a file, and what
\* the final drain took was never written by the consumer before.
FilePositions == UNION { {p} \X (1..Len(fs_files[p])) : p \in DOMAIN fs_files }

FileOccurrences(e) == Cardinality({ at \in FilePositions : fs_files[at[1]][at[2]] = e })

C28_AtMostOnce ==
    /\ [](\A e \in Range(enq_hist) : FileOccurrences(e) <= 1)
    /\ [](\A i, j \in 1..Len(enq_hist) : enq_hist[i] = enq_hist[j] => i = j)
    /\ [](cons_entry # NoLine =>
            (cons_entry \notin Range(log_queue) /\ FileOccurrences(cons_entry) = 0))
    /\ [](\A c \in PtConsumers :
            pt_node[c] # NoLine =>
               (pt_node[c] \notin Range(pt_list) /\ FileOccurrences(pt_node[c]) = 0))

\* The consumer thread wrote one entry and the final drain another.
C28_Witness ==
    /\ logger = "cpp" /\ main_pc = "return"
    /\ Len(enq_hist) = 2
    /\ enq_hist[1] \notin drained /\ enq_hist[2] \in drained
    /\ FileOccurrences(enq_hist[1]) = 1 /\ FileOccurrences(enq_hist[2]) = 1

\* The step in which a FATAL call of COUT_ ends the process.
FatalExit(t) ==
    /\ ~exited /\ exited'
    /\ thr_pc[t] = "cout_tail" /\ thr_level[t] = "FATAL"

\* C29: the step in which a FATAL call ends the process runs nothing of the
\* shutdown: it leaves the flag, the thread object, the queue, the files, the
\* consumer and stopLogThread's caller as they are; once the process has
\* ended nothing changes any more; so when a FATAL call ends a process in
\* which stopLogThread was not called, the flag is still true, the consumer
\* thread is not joined, and the entries in log_queue are in no file and
\* stay so.
C29_FatalSkipsShutdown ==
    /\ [][ \A t \in Threads :
             FatalExit(t) =>
                UNCHANGED << log_thread_running, log_thread_joinable, log_queue,
                             fs_files, cons_pc, cons_entry, main_pc, stop_calls,
                             guard_pc >> ]_vars
    /\ [][ ~exited ]_vars
    /\ []((/\ exited /\ \E t \in Threads : thr_pc[t] = "exit"
           /\ stop_calls = 0 /\ main_pc = "idle") =>
              /\ log_thread_running
              /\ log_thread_joinable
              /\ \A e \in Range(log_queue) : FileOccurrences(e) = 0)

\* A FATAL call has ended the process while an entry lay in the queue: the
\* flag is true, the thread joinable, the entry in no file.
C29_Witness ==
    /\ logger = "cpp" /\ exited
    /\ \E t \in Threads : thr_pc[t] = "exit" /\ thr_level[t] = "FATAL"
    /\ log_queue # << >> /\ ~Persisted(Head(log_queue))
    /\ log_thread_running /\ log_thread_joinable
    /\ cons_pc # "done"

\* C30: when two threads are inside stopLogThread, at most one of them has
\* found the thread joinable and is at join(), so the consumer thread is
\* joined by one caller only; and no call ends in an exception or in a join
\* that does not return.
C30_JoinedByOne ==
    /\ ~(main_pc = "join" /\ stop2_pc = "join")
    /\ main_pc \notin {"threw", "hung"}
    /\ stop2_pc \notin {"threw", "hung"}
====
